---- MODULE Spec2Model ----
(***************************************************************************)
(* Model of the commit-analysis pipeline of bitbucket_analyzer.py:         *)
(* BitbucketClient (paginated requests), CommitAnalyzer (classification,   *)
(* filtering, per-commit line statistics, the branch loop) and Reporter    *)
(* (text and JSON reports).                                                *)
(*                                                                         *)
(* Python dicts are functions whose DOMAIN is the set of keys present, so  *)
(* that `k in d`, d.get(k, default) and d[k] (KeyError when absent) are    *)
(* modelled by what they do.  The client is synchronous: every action is   *)
(* one request together with the code that runs on its response up to the  *)
(* next request, the return or the raise.                                  *)
(***************************************************************************)
EXTENDS Integers, Sequences, FiniteSets, TLC

(* ------------------------------ bounds -------------------------------- *)
\* commits the server holds on the branch (ids 1..MaxCommits, 1 the oldest)
MaxCommits == 3
\* largest page (number of items) the server puts in one response
MaxPage == 2
\* times the server leaves nextPageStart out of a page that is not the last
MaxRestarts == 1
\* entries of the change lists the server holds, over one run
MaxFiles == 2
\* added and removed line entries of the diffs the server holds, over one run
MaxLines == 2
\* calls of the Reporter on one list of records
MaxCalls == 2

(* ------------------------- program constants -------------------------- *)
\* Python's None as a commit id (ids are 1..MaxCommits)
None == 0
\* get_commits: limit = 100
CommitsLimit == 100
\* get_commit_changes: limit = 1000
ChangesLimit == 1000
\* generate_text_report: analyzed_commit[:7]
PrefixLen == 7

(* ------------------------------- dicts -------------------------------- *)
EmptyDict == [k \in {} |-> 0]

\* d.get(k, default)
Get(d, k, default) == IF k \in DOMAIN d THEN d[k] ELSE default

Min(a, b) == IF a <= b THEN a ELSE b

\* the loop of analyze_branch without reversed(): the list as it is
ReverseForgotten(s) == s

\* reversed(s)
Reverse(s) == [i \in 1..Len(s) |-> s[Len(s) + 1 - i]]

\* all sequences over S of length 0..n
SeqUpTo(S, n) == UNION {[1..m -> S] : m \in 0..n}

(* ------------------------ BitbucketClient (pure) ---------------------- *)
\* the page assigned instead of appended
ExtendValuesOverwrite(all, response) ==
    IF "values" \in DOMAIN response THEN response["values"] ELSE all

\* if "values" in response: all.extend(response["values"])
ExtendValues(all, response) ==
    IF "values" \in DOMAIN response THEN all \o response["values"] ELSE all

\* is_last_page = response.get("isLastPage", True)
IsLastPage(response) == Get(response, "isLastPage", TRUE)

\* start = response.get("nextPageStart", 0)
NextPageStart(response) == Get(response, "nextPageStart", 0)

\* the request get_commits issues for one page
CommitsRequest(branch, s) ==
    [endpoint |-> "/commits", until |-> branch, start |-> s, limit |-> CommitsLimit]

\* the request get_commit_changes issues for one page
ChangesRequest(current_commit_id, previous_commit_id, s) ==
    [endpoint |-> "/changes", commit |-> current_commit_id,
     since |-> previous_commit_id, start |-> s, limit |-> ChangesLimit]

\* the request get_file_change issues
FileChangeRequest(current_commit_id, previous_commit_id, file_path) ==
    [endpoint |-> "/diff", path |-> file_path,
     since |-> previous_commit_id, until |-> current_commit_id]

(* ------------------------ CommitAnalyzer (pure) ----------------------- *)
\* is_merge_commit with the comparison off by one: a single parent counts
is_merge_commit_single(commit) == Len(Get(commit, "parents", <<>>)) >= 1

\* len(commit.get("parents", [])) > 1
is_merge_commit(commit) == Len(Get(commit, "parents", <<>>)) > 1

\* len(commit.get("parents", [])) == 0
is_initial_commit(commit) == Len(Get(commit, "parents", <<>>)) = 0

\* the loop of filter_significant_commits: append, in input order, every
\* commit that is initial or a merge
RECURSIVE filter_significant_commits(_)
filter_significant_commits(commits) ==
    IF commits = <<>> THEN <<>>
    ELSE LET commit == Head(commits)
             rest == filter_significant_commits(Tail(commits))
         IN  IF is_initial_commit(commit) \/ is_merge_commit(commit)
             THEN <<commit>> \o rest
             ELSE rest

\* os.path.splitext on the paths of the model: the root and the extension
\* from the last dot on
Splitext(file_path) ==
    CASE file_path = "a.py" -> <<"a", ".py">>
      [] file_path = "b.PNG" -> <<"b", ".PNG">>

\* str.lower on the extensions of the model
Lower(ext) ==
    CASE ext = ".PNG" -> ".png"
      [] OTHER -> ext

\* should_include_file: everything is included when excluded_extensions is
\* falsy (None or the empty list, both the empty sequence here), else the
\* files whose lower-cased extension is not in the list
should_include_file(file_path, excluded_extensions) ==
    IF Len(excluded_extensions) = 0 THEN TRUE
    ELSE \A k \in 1..Len(excluded_extensions) :
            Lower(Splitext(file_path)[2]) # excluded_extensions[k]

\* the baseline with the `previous_commit_id is None` test left out: the
\* first parent whenever there is one
ResolvePreviousParentFirst(current_commit, previous_commit_id) ==
    IF Len(Get(current_commit, "parents", <<>>)) > 0
    THEN current_commit["parents"][1]["id"]
    ELSE previous_commit_id

\* analyze_commit_changes, the baseline: the first parent's id when no
\* previous commit id is given and the commit is not initial
ResolvePrevious(current_commit, previous_commit_id) ==
    IF previous_commit_id = None /\ ~is_initial_commit(current_commit)
    THEN current_commit["parents"][1]["id"]
    ELSE previous_commit_id

\* the innermost loop of analyze_commit_changes: lines of the segments of
\* one hunk whose type is `kind`
RECURSIVE SegmentLines(_, _)
SegmentLines(segments, kind) ==
    IF segments = <<>> THEN 0
    ELSE (IF Get(Head(segments), "type", "") = kind
          THEN Len(Get(Head(segments), "lines", <<>>))
          ELSE 0) + SegmentLines(Tail(segments), kind)

RECURSIVE HunkLines(_, _)
HunkLines(hunks, kind) ==
    IF hunks = <<>> THEN 0
    ELSE SegmentLines(Get(Head(hunks), "segments", <<>>), kind)
         + HunkLines(Tail(hunks), kind)

RECURSIVE DiffLines(_, _)
DiffLines(diffs, kind) ==
    IF diffs = <<>> THEN 0
    ELSE HunkLines(Get(Head(diffs), "hunks", <<>>), kind)
         + DiffLines(Tail(diffs), kind)

\* lines_added taking the lines of CONTEXT segments as well
AddedInWithContext(data) ==
    DiffLines(Get(data, "diffs", <<>>), "ADDED")
    + DiffLines(Get(data, "diffs", <<>>), "CONTEXT")

\* what one get_file_change response adds to lines_added
AddedIn(data) == DiffLines(Get(data, "diffs", <<>>), "ADDED")

\* what one get_file_change response adds to lines_removed
RemovedIn(data) == DiffLines(Get(data, "diffs", <<>>), "REMOVED")

\* net_change as the size of the change, never negative
NetChangeMagnitude(la, lr) == IF la >= lr THEN la - lr ELSE lr - la

\* net_change = lines_added - lines_removed
NetChange(la, lr) == la - lr

\* the dict analyze_commit_changes returns
AnalysisRecord(current_commit, fc, la, lr) ==
    [analyzed_commit |-> current_commit["id"],
     author |-> Get(Get(current_commit, "author", EmptyDict), "name", "Unknown"),
     date |-> Get(current_commit, "authorTimestamp", 0),
     files_changed |-> fc,
     lines_added |-> la,
     lines_removed |-> lr,
     net_change |-> NetChange(la, lr)]

\* the for loop of analyze_commit_changes from entry k on: the first entry
\* that has a "type" (its diff is fetched next), Len + 1 when there is none
RECURSIVE NextTyped(_, _)
NextTyped(chs, k) ==
    IF k > Len(chs) THEN k
    ELSE IF "type" \in DOMAIN chs[k] THEN k
    ELSE NextTyped(chs, k + 1)

(* --------------------------- Reporter (pure) -------------------------- *)
\* sum(r[key] for r in analysis_results)
RECURSIVE Sum(_, _)
Sum(rs, key) == IF rs = <<>> THEN 0 ELSE Head(rs)[key] + Sum(Tail(rs), key)

\* format_timestamp: "Unknown date" for a falsy timestamp, else the date
\* and time of the second the millisecond timestamp falls in
format_timestamp(timestamp) ==
    IF timestamp = 0 THEN <<"Unknown date">> ELSE <<"date", timestamp \div 1000>>

\* a commit id as the string it is: the model's id i stands for a hash
\* longer than the prefix the text report prints
IdText(i) == [k \in 1..(PrefixLen + 1) |-> i]

\* the keys of cumulative_data in insertion order: the authors by first
\* appearance
RECURSIVE AuthorOrder(_, _)
AuthorOrder(rs, seen) ==
    IF rs = <<>> THEN <<>>
    ELSE IF Head(rs)["author"] \in seen THEN AuthorOrder(Tail(rs), seen)
    ELSE <<Head(rs)["author"]>>
         \o AuthorOrder(Tail(rs), seen \cup {Head(rs)["author"]})

\* cumulative_data after the loop of generate_text_report: an author's entry
\* is created, and added to, only when the author is not yet a key
RECURSIVE CumulativeData(_, _)
CumulativeData(rs, data) ==
    IF rs = <<>> THEN data
    ELSE LET r == Head(rs)
         IN  IF r["author"] \in DOMAIN data THEN CumulativeData(Tail(rs), data)
             ELSE CumulativeData(Tail(rs),
                      (r["author"] :> [files_changed |-> 0 + r["files_changed"],
                                       lines_added |-> 0 + r["lines_added"],
                                       lines_removed |-> 0 + r["lines_removed"],
                                       net_change |-> 0 + r["net_change"]]) @@ data)

\* the lines generate_text_report appends for one record
TextBlock(r) ==
    <<<<"Commit: ", SubSeq(IdText(r["analyzed_commit"]), 1, PrefixLen), " (",
        IF r["is_initial"] THEN "Initail Commit" ELSE "Merge Commit", ")">>,
      <<"Author: ", r["author"]>>,
      <<"Date: ", format_timestamp(r["date"])>>,
      <<"Files Changed: ", r["files_changed"]>>,
      <<"Lines Added: ", r["lines_added"]>>,
      <<"Lines Removed: ", r["lines_removed"]>>,
      <<"Net Change: ", r["net_change"]>>,
      <<"------------------------------">>,
      <<"">>>>

RECURSIVE TextBlocks(_)
TextBlocks(rs) ==
    IF rs = <<>> THEN <<>> ELSE TextBlock(Head(rs)) \o TextBlocks(Tail(rs))

\* generate_text_report: the lines of the text it returns, or the KeyError
\* that result['is_initial'] raises on the first record without that key;
\* with show_cumulative, report_lines is replaced by cumulative_data, and
\* joining a dict joins its keys: one line per author, the name alone
generate_text_report(rs, show_cumulative) ==
    IF rs = <<>> THEN [value |-> <<<<"No results to report.">>>>]
    ELSE IF show_cumulative
    THEN [value |-> LET cumulative_data == CumulativeData(rs, EmptyDict)
                        keys == SelectSeq(AuthorOrder(rs, {}),
                                          LAMBDA a : a \in DOMAIN cumulative_data)
                    IN  [i \in 1..Len(keys) |-> <<keys[i]>>]]
    ELSE IF \E i \in 1..Len(rs) : "is_initial" \notin DOMAIN rs[i]
    THEN [raised |-> "KeyError"]
    ELSE [value |->
            <<<<"Bitbucket Commit Analysis Report">>,
              <<"==============================">>, <<"">>>>
            \o TextBlocks(rs)
            \o <<<<"Total Files Changed: ", Sum(rs, "files_changed")>>,
                 <<"Total Lines Added: ", Sum(rs, "lines_added")>>,
                 <<"Total Lines Removed: ", Sum(rs, "lines_removed")>>,
                 <<"Total Net Change: ", Sum(rs, "net_change")>>>>]

\* the summary with the files total taken for the number of records
SummaryFilesMiscounted(rs) ==
    [total_commits |-> Len(rs),
     total_files_changed |-> Len(rs),
     total_lines_added |-> Sum(rs, "lines_added"),
     total_lines_removed |-> Sum(rs, "lines_removed"),
     total_net_change |-> Sum(rs, "net_change")]

\* the summary dict of generate_json_report
Summary(rs) ==
    [total_commits |-> Len(rs),
     total_files_changed |-> Sum(rs, "files_changed"),
     total_lines_added |-> Sum(rs, "lines_added"),
     total_lines_removed |-> Sum(rs, "lines_removed"),
     total_net_change |-> Sum(rs, "net_change")]

\* the cumulative loop writing the running sums into the record's own
\* count fields instead of the cumulative_* keys
RECURSIVE AddCumulativeOverwriting(_, _, _, _, _)
AddCumulativeOverwriting(rs, cumulative_added, cumulative_removed, cumulative_net, cumulative_files) ==
    IF rs = <<>> THEN <<>>
    ELSE LET r == Head(rs)
             ca == cumulative_added + r["lines_added"]
             cr == cumulative_removed + r["lines_removed"]
             cn == cumulative_net + r["net_change"]
             cf == cumulative_files + r["files_changed"]
         IN  <<[files_changed |-> cf,
                lines_added |-> ca,
                lines_removed |-> cr,
                net_change |-> cn] @@ r>>
             \o AddCumulativeOverwriting(Tail(rs), ca, cr, cn, cf)

\* the cumulative loop of generate_json_report: the running sums are
\* updated with each record and written into it
RECURSIVE AddCumulative(_, _, _, _, _)
AddCumulative(rs, cumulative_added, cumulative_removed, cumulative_net, cumulative_files) ==
    IF rs = <<>> THEN <<>>
    ELSE LET r == Head(rs)
             ca == cumulative_added + r["lines_added"]
             cr == cumulative_removed + r["lines_removed"]
             cn == cumulative_net + r["net_change"]
             cf == cumulative_files + r["files_changed"]
         IN  <<[cumulative_files_changed |-> cf,
                cumulative_lines_added |-> ca,
                cumulative_lines_removed |-> cr,
                cumulative_net_change |-> cn] @@ r>>
             \o AddCumulative(Tail(rs), ca, cr, cn, cf)

\* the cumulative loop run whatever show_cumulative says
JsonRecordsAlways(rs, show_cumulative) ==
    IF rs # <<>> THEN AddCumulative(rs, 0, 0, 0, 0) ELSE rs

\* analysis_results as generate_json_report leaves it
JsonRecords(rs, show_cumulative) ==
    IF rs # <<>> /\ show_cumulative THEN AddCumulative(rs, 0, 0, 0, 0) ELSE rs

\* generate_json_report without the guard for an empty list
generate_json_report_unguarded(rs, show_cumulative) ==
    IF rs = <<>> THEN [raised |-> "IndexError"]
    ELSE [value |-> [summary |-> Summary(rs),
                     commits |-> JsonRecords(rs, show_cumulative)]]

\* generate_json_report: the object whose JSON text it returns
generate_json_report(rs, show_cumulative) ==
    IF rs = <<>> THEN [value |-> [error |-> "No results to report."]]
    ELSE [value |-> [summary |-> Summary(rs),
                     commits |-> JsonRecords(rs, show_cumulative)]]

(* ------------------------- the server's content ----------------------- *)
Branch == "main"

\* parent lists of the commit with id i: none, one older commit, or two
\* different older commits (a merge)
ParentChoices(i) ==
    {<<>>} \cup {<<[id |-> p]>> : p \in 1..(i - 1)}
           \cup {<<[id |-> p], [id |-> q]>> :
                    <<p, q>> \in {pq \in (1..(i - 1)) \X (1..(i - 1)) : pq[1] # pq[2]}}

\* the optional fields of the commit with id i: author (with or without a
\* name) and authorTimestamp are present for some ids and absent for others
CommitExtras(i) ==
    (IF i % 2 = 1 THEN "author" :> [name |-> "ann"]
     ELSE IF i % 4 = 2 THEN "author" :> EmptyDict ELSE EmptyDict)
    @@ (IF i % 3 = 0 THEN EmptyDict ELSE "authorTimestamp" :> (1000 * i))

\* the commit dicts the server may hold for id i; an initial commit comes
\* with an empty parent list or without the key
CommitChoices(i) ==
    {[id |-> i] @@ CommitExtras(i)}
    \cup {[id |-> i, parents |-> ps] @@ CommitExtras(i) : ps \in ParentChoices(i)}

\* the branch as the server lists it: newest first, ids n, n-1, .., m; the
\* listing may stop before the root (m > 1)
Repos ==
    UNION {{s \in [1..(n + 1 - m) -> UNION {CommitChoices(i) : i \in m..n}] :
               \A k \in 1..(n + 1 - m) : s[k]["id"] = n + 1 - k} :
           n \in 0..MaxCommits, m \in 1..MaxCommits}

Paths == {"a.py", "b.PNG"}

\* the excluded_extensions a caller may pass: none (the default), or the
\* lower-cased, dotted extensions main builds from --exclude
ExcludedChoices == {<<>>, <<".png">>}

\* entries of a change list; the code tests for "type"
ChangeChoices ==
    {[path |-> [toString |-> p], type |-> "MODIFY"] : p \in Paths}
    \cup {[path |-> [toString |-> "a.py"]]}

\* the change lists of at most n entries
ChangeLists(n) == SeqUpTo(ChangeChoices, n)

Lines(n) == [i \in 1..n |-> "text"]

\* segments of a per-file diff: typed with 1..MaxLines lines, an ADDED one
\* without the "lines" key, an untyped one
SegmentChoices ==
    {[type |-> t, lines |-> Lines(n)] : t \in {"ADDED", "REMOVED"}, n \in 1..MaxLines}
    \cup {[type |-> "CONTEXT", lines |-> Lines(1)], [type |-> "ADDED"],
          [lines |-> Lines(1)]}

\* how the segments of one per-file diff are laid out: each segment after
\* the first continues the current hunk ("seg"), opens a hunk of the current
\* diff ("hunk") or opens a diff ("diff")
Layouts ==
    {<<"diff">>, <<"diff", "seg">>, <<"diff", "hunk">>, <<"diff", "diff">>}

\* the list of diffs holding the segments ss laid out as lay
Nest(ss, lay) ==
    LET AddSegment(ds, seg, mark) ==
            IF mark = "diff"
            THEN Append(ds, [hunks |-> <<[segments |-> <<seg>>]>>])
            ELSE LET d == ds[Len(ds)]
                     hs == d["hunks"]
                 IN  IF mark = "hunk"
                     THEN [ds EXCEPT ![Len(ds)] =
                              [hunks |-> Append(hs, [segments |-> <<seg>>])]]
                     ELSE [ds EXCEPT ![Len(ds)] =
                              [hunks |-> [hs EXCEPT ![Len(hs)] =
                                  [segments |-> Append(hs[Len(hs)]["segments"], seg)]]]]
        f[k \in 0..Len(ss)] ==
            IF k = 0 THEN <<>> ELSE AddSegment(f[k - 1], ss[k], lay[k])
    IN  f[Len(ss)]

\* the bodies the server may answer a /diff request with: every layout of
\* every choice of segments, and the bodies with a key or a level missing
DiffData ==
    {[diffs |-> Nest(ss, lay)] :
        <<ss, lay>> \in UNION {[1..Len(l) -> SegmentChoices] \X {l} : l \in Layouts}}
    \cup {EmptyDict, [diffs |-> <<>>], [diffs |-> <<EmptyDict>>],
          [diffs |-> <<[hunks |-> <<>>]>>], [diffs |-> <<[hunks |-> <<EmptyDict>>]>>],
          [diffs |-> <<[hunks |-> <<[segments |-> <<>>]>>]>>]}

\* the bodies that add at most b lines to the sums
DiffDataUpTo == [b \in 0..MaxLines |-> {d \in DiffData : AddedIn(d) + RemovedIn(d) <= b}]

PageKeys == {"values", "isLastPage", "nextPageStart"}

\* one page of the envelope {values, isLastPage, nextPageStart}, without
\* the keys in `omit`
PageDict(vals, last, nxt, omit) ==
    (IF "values" \in omit THEN EmptyDict ELSE "values" :> vals)
    @@ (IF "isLastPage" \in omit THEN EmptyDict ELSE "isLastPage" :> last)
    @@ (IF "nextPageStart" \in omit THEN EmptyDict ELSE "nextPageStart" :> nxt)

\* the pages the server may answer a request for `start = s` with: up to
\* MaxPage items of the list from offset s; the last page comes with or
\* without nextPageStart; a server that is loose with the envelope leaves
\* out any of the keys in `omits`, nextPageStart of a page that is not the
\* last only when mayRestart
PageResponses(list, s, omits, mayRestart) ==
    {r \in {PageDict(SubSeq(list, s + 1, Min(s + n, Len(list))),
                     s + n >= Len(list), s + n, omit) :
               n \in 1..MaxPage, omit \in SUBSET PageKeys} :
        /\ \A k \in PageKeys \ DOMAIN r :
              k \in omits \/ (k = "nextPageStart" /\ Get(r, "isLastPage", FALSE))
        /\ mayRestart \/ "nextPageStart" \in DOMAIN r \/ Get(r, "isLastPage", TRUE)}

(* -------------------------------- state ------------------------------- *)
VARIABLES
    top,                  \* the entry point that was called
    excluded_extensions,  \* the excluded_extensions argument of the entry point
    pc,                   \* the request the code is about to issue, or how it ended
    result,               \* [value |-> v] once the entry point has returned v
    failed,               \* whether a request has failed
    requests,             \* every request issued so far, in order
    srv_commits,          \* server: the branch's commits, newest first
    srv_changes,          \* server: the change list of the pair being fetched
    srv_omits,            \* server: the envelope keys it may leave out of a page
    restarts,             \* non-last pages without nextPageStart in this fetch
    start,                \* get_commits / get_commit_changes: start
    all_changes,          \* get_commit_changes: all_changes
    responses,            \* the pages received in the current fetch
    all_commits,          \* get_commits: all_commits, then analyze_branch's
    significant_commits,  \* analyze_branch: significant_commits
    idx,                  \* analyze_branch: position in reversed(significant_commits)
    previous_commit_id,   \* the previous_commit_id argument of analyze_commit_changes
    results,              \* analyze_branch: results
    current_commit,       \* analyze_commit_changes: current_commit
    since_id,             \* analyze_commit_changes: previous_commit_id once resolved
    changes,              \* analyze_commit_changes: changes
    file_i,               \* analyze_commit_changes: position in changes
    files_changed,        \* analyze_commit_changes: files_changed
    lines_added,          \* analyze_commit_changes: lines_added
    lines_removed,        \* analyze_commit_changes: lines_removed
    data,                 \* analyze_commit_changes called directly: data, the diff counted last
    calls,                \* Reporter calls made on results so far
    last_call,            \* the last Reporter call: function and show_cumulative
    report                \* what the last Reporter call returned or raised

vars == <<top, excluded_extensions, data, pc, result, failed, requests, srv_commits, srv_changes, srv_omits, restarts, start,
          all_changes, responses, all_commits, significant_commits, idx,
          previous_commit_id, results, current_commit, since_id, changes, file_i,
          files_changed, lines_added, lines_removed, calls, last_call, report>>

reportVars == <<calls, last_call, report>>
branchVars == <<all_commits, significant_commits, idx, results>>
commitVars == <<current_commit, previous_commit_id, since_id>>
countVars == <<changes, file_i, files_changed, lines_added, lines_removed, data>>
fetchVars == <<srv_changes, restarts, start, all_changes, responses>>

(* ----------------------- return, raise, loop steps -------------------- *)
\* change entries and counted lines of the records rs
FilesIn(rs) ==
    LET n[k \in 0..Len(rs)] == IF k = 0 THEN 0 ELSE n[k - 1] + rs[k]["files_changed"]
    IN  n[Len(rs)]

LinesIn(rs) ==
    LET n[k \in 0..Len(rs)] ==
            IF k = 0 THEN 0
            ELSE n[k - 1] + rs[k]["lines_added"] + rs[k]["lines_removed"]
    IN  n[Len(rs)]

\* the diff d as the state keeps it: data is followed for a direct call of
\* analyze_commit_changes; inside analyze_branch, where the same code runs
\* once per commit, the diff is dropped once it has been counted
Kept(d) == IF top = "analyze_commit_changes" THEN d ELSE EmptyDict

\* the entry point returns v
Return(v) == pc' = "returned" /\ result' = [value |-> v]

\* analyze_commit_changes is entered for `commit` with the argument `prev`:
\* the baseline is resolved and get_commit_changes starts its loop
BeginCommit(commit, prev) ==
    /\ pc' = "get_changes"
    /\ current_commit' = commit
    /\ previous_commit_id' = prev
    /\ since_id' = ResolvePrevious(commit, prev)
    /\ srv_changes' \in ChangeLists(MaxFiles - FilesIn(results'))
    /\ restarts' = 0 /\ start' = 0 /\ all_changes' = <<>> /\ responses' = <<>>
    /\ changes' = <<>> /\ file_i' = 0 /\ files_changed' = 0
    /\ lines_added' = 0 /\ lines_removed' = 0 /\ data' = EmptyDict
    /\ UNCHANGED result

\* analyze_commit_changes returns its record for the change list chs, d
\* being the last diff it counted; in analyze_branch the record is appended
\* and the loop goes on, the locals of the finished call being gone
FinishCommit(chs, la, lr, d) ==
    LET record == AnalysisRecord(current_commit, Len(chs), la, lr)
    IN  IF top = "analyze_commit_changes"
        THEN /\ Return(record)
             /\ changes' = chs /\ file_i' = Len(chs) /\ files_changed' = Len(chs)
             /\ lines_added' = la /\ lines_removed' = lr /\ data' = Kept(d)
             /\ start' = 0 /\ all_changes' = <<>> /\ responses' = <<>>
             /\ UNCHANGED <<branchVars, commitVars, srv_changes, restarts>>
        ELSE /\ results' = Append(results, record)
             /\ UNCHANGED <<all_commits, significant_commits>>
             /\ IF idx < Len(significant_commits)
                THEN /\ idx' = idx + 1
                     /\ BeginCommit(Reverse(significant_commits)[idx + 1],
                                    current_commit["id"])
                ELSE /\ Return(Append(results, record))
                     /\ previous_commit_id' = current_commit["id"]
                     /\ changes' = chs /\ file_i' = Len(chs)
                     /\ files_changed' = Len(chs)
                     /\ lines_added' = la /\ lines_removed' = lr
                     /\ data' = EmptyDict
                     /\ start' = 0 /\ all_changes' = <<>> /\ responses' = <<>>
                     /\ UNCHANGED <<idx, current_commit, since_id, srv_changes,
                                    restarts>>

\* the first entry of chs from k on that has a "type" and a path that
\* should_include_file lets through
RECURSIVE NextTypedIncluded(_, _, _)
NextTypedIncluded(chs, k, excluded) ==
    IF k > Len(chs) THEN k
    ELSE IF /\ "type" \in DOMAIN chs[k]
            /\ should_include_file(chs[k]["path"]["toString"], excluded)
         THEN k
    ELSE NextTypedIncluded(chs, k + 1, excluded)

\* the for loop with the diff fetched only for the files that
\* should_include_file lets through
AdvanceFilesFiltered(chs, k, la, lr, d) ==
    LET j == NextTypedIncluded(chs, k, excluded_extensions)
    IN  IF j <= Len(chs)
        THEN /\ pc' = "get_file_change"
             /\ changes' = chs /\ file_i' = j /\ files_changed' = j
             /\ lines_added' = la /\ lines_removed' = lr /\ data' = Kept(d)
             /\ start' = 0 /\ all_changes' = <<>> /\ responses' = <<>>
             /\ UNCHANGED <<result, branchVars, commitVars, srv_changes, restarts>>
        ELSE FinishCommit(chs, la, lr, d)

\* the for loop over chs goes on at entry k with the sums la and lr: entries
\* without "type" are only counted, the next one with a type has its diff
\* fetched, and after the last entry the record is built
AdvanceFiles(chs, k, la, lr, d) ==
    LET j == NextTyped(chs, k)
    IN  IF j <= Len(chs)
        THEN /\ pc' = "get_file_change"
             /\ changes' = chs /\ file_i' = j /\ files_changed' = j
             /\ lines_added' = la /\ lines_removed' = lr /\ data' = Kept(d)
             /\ start' = 0 /\ all_changes' = <<>> /\ responses' = <<>>
             /\ UNCHANGED <<result, branchVars, commitVars, srv_changes, restarts>>
        ELSE FinishCommit(chs, la, lr, d)

\* get_commits has returned `all`: the caller's code up to its next request
AfterGetCommits(all, log) ==
    /\ all_commits' = all
    /\ IF top = "get_commits"
       THEN /\ Return(all)
            /\ start' = 0 /\ responses' = log
            /\ UNCHANGED <<significant_commits, idx, results, commitVars, countVars,
                           srv_changes, restarts, all_changes>>
       ELSE LET significant == IF all = <<>> THEN <<>>
                               ELSE filter_significant_commits(all)
            IN  /\ significant_commits' = significant
                /\ results' = <<>>
                /\ IF significant = <<>>
                   THEN /\ Return(<<>>)
                        /\ start' = 0 /\ responses' = <<>>
                        /\ UNCHANGED <<idx, commitVars, countVars, srv_changes,
                                       restarts, all_changes>>
                   ELSE /\ idx' = 1
                        /\ BeginCommit(Reverse(significant)[1], None)

\* a request fails and the failure is swallowed: what has been analyzed so
\* far is returned
RaiseSwallowed(request) ==
    /\ requests' = Append(requests, request)
    /\ failed' = TRUE
    /\ pc' = "returned"
    /\ result' = [value |-> results]
    /\ UNCHANGED <<top, excluded_extensions, srv_commits, srv_omits, reportVars, branchVars, commitVars,
                   countVars, fetchVars>>

\* a request fails: _make_request raises and nothing catches it
Raise(request) ==
    /\ requests' = Append(requests, request)
    /\ failed' = TRUE
    /\ pc' = "raised"
    /\ UNCHANGED <<top, excluded_extensions, result, srv_commits, srv_omits, reportVars, branchVars, commitVars, countVars,
                   fetchVars>>

(* ------------------------------- actions ------------------------------ *)
\* whether the page `response`, received for offset s, sends the loop back
\* to an offset it has already requested
IsRestart(response) ==
    ~IsLastPage(response) /\ "nextPageStart" \notin DOMAIN response

\* get_commits: one pass of the while loop, and on the last page the code
\* that follows the return
CommitsPage ==
    /\ pc = "get_commits"
    /\ \E response \in PageResponses(srv_commits, start, srv_omits,
                                     restarts < MaxRestarts) :
          LET all == ExtendValues(all_commits, response)
              log == Append(responses, response)
          IN  /\ requests' = Append(requests, CommitsRequest(Branch, start))
              /\ UNCHANGED <<top, excluded_extensions, failed, srv_commits, srv_omits, reportVars>>
              /\ IF ~IsLastPage(response)
                 THEN /\ all_commits' = all
                      /\ start' = NextPageStart(response)
                      /\ responses' = log
                      /\ restarts' = IF IsRestart(response) THEN restarts + 1
                                     ELSE restarts
                      /\ UNCHANGED <<pc, result, significant_commits, idx, results,
                                     commitVars, countVars, srv_changes, all_changes>>
                 ELSE AfterGetCommits(all, log)

\* get_commits: the page request fails
CommitsFail ==
    /\ pc = "get_commits"
    /\ Raise(CommitsRequest(Branch, start))

\* get_commit_changes: one pass of the while loop, and on the last page the
\* code that follows the return
ChangesPage ==
    /\ pc = "get_changes"
    /\ \E response \in PageResponses(srv_changes, start, srv_omits,
                                     restarts < MaxRestarts) :
          LET all == ExtendValues(all_changes, response)
          IN  /\ requests' = Append(requests,
                     ChangesRequest(current_commit["id"], since_id, start))
              /\ UNCHANGED <<top, excluded_extensions, failed, srv_commits, srv_omits, reportVars>>
              /\ IF ~IsLastPage(response)
                 THEN /\ all_changes' = all
                      /\ start' = NextPageStart(response)
                      /\ responses' = Append(responses, response)
                      /\ restarts' = IF IsRestart(response) THEN restarts + 1
                                     ELSE restarts
                      /\ UNCHANGED <<pc, result, branchVars, commitVars, countVars,
                                     srv_changes>>
                 ELSE IF top = "get_commit_changes"
                 THEN /\ Return(all)
                      /\ all_changes' = all
                      /\ start' = 0
                      /\ responses' = Append(responses, response)
                      /\ UNCHANGED <<branchVars, commitVars, countVars, srv_changes,
                                     restarts>>
                 ELSE AdvanceFiles(all, 1, 0, 0, EmptyDict)

\* get_commit_changes: the page request fails
ChangesFail ==
    /\ pc = "get_changes"
    /\ Raise(ChangesRequest(current_commit["id"], since_id, start))

\* get_file_change for the entry at file_i: its lines are summed and the for
\* loop goes on
FileChange ==
    /\ pc = "get_file_change"
    /\ \E response \in DiffDataUpTo[MaxLines - LinesIn(results)
                                      - lines_added - lines_removed] :
          /\ requests' = Append(requests,
                 FileChangeRequest(current_commit["id"], since_id,
                                   changes[file_i]["path"]["toString"]))
          /\ UNCHANGED <<top, excluded_extensions, failed, srv_commits, srv_omits, reportVars>>
          /\ AdvanceFiles(changes, file_i + 1, lines_added + AddedIn(response),
                          lines_removed + RemovedIn(response), response)

\* get_file_change: the request fails
FileChangeFail ==
    /\ pc = "get_file_change"
    /\ Raise(FileChangeRequest(current_commit["id"], since_id,
                               changes[file_i]["path"]["toString"]))

\* Reporter.generate_text_report(results, show_cumulative=sc)
TextReport ==
    /\ pc = "report"
    /\ calls < MaxCalls
    /\ \E sc \in BOOLEAN :
          /\ report' = generate_text_report(results, sc)
          /\ last_call' = [function |-> "generate_text_report", show_cumulative |-> sc]
    /\ calls' = calls + 1
    /\ UNCHANGED <<top, excluded_extensions, pc, result, failed, requests, srv_commits, srv_omits, branchVars,
                   commitVars, countVars, fetchVars>>

\* Reporter.generate_json_report(results, show_cumulative=sc): the records
\* of the caller's list are written to in place
JsonReport ==
    /\ pc = "report"
    /\ calls < MaxCalls
    /\ \E sc \in BOOLEAN :
          /\ report' = generate_json_report(results, sc)
          /\ results' = JsonRecords(results, sc)
          /\ last_call' = [function |-> "generate_json_report", show_cumulative |-> sc]
    /\ calls' = calls + 1
    /\ UNCHANGED <<top, excluded_extensions, pc, result, failed, requests, srv_commits, srv_omits, all_commits,
                   significant_commits, idx, commitVars, countVars, fetchVars>>

(* --------------------------- specifications --------------------------- *)
\* analyze_branch is entered, on a server holding any of the branches
BranchCall ==
    /\ top = "analyze_branch"
    /\ pc = "get_commits" /\ result = EmptyDict /\ failed = FALSE /\ requests = <<>>
    /\ srv_commits \in Repos /\ srv_changes = <<>> /\ restarts = 0
    /\ srv_omits = {}
    /\ start = 0 /\ all_changes = <<>> /\ responses = <<>>
    /\ all_commits = <<>> /\ significant_commits = <<>> /\ idx = 0
    /\ previous_commit_id = None /\ results = <<>>
    /\ current_commit = EmptyDict /\ since_id = None
    /\ changes = <<>> /\ file_i = 0 /\ files_changed = 0
    /\ lines_added = 0 /\ lines_removed = 0 /\ data = EmptyDict
    /\ calls = 0 /\ last_call = EmptyDict /\ report = EmptyDict

\* analyze_branch(Branch), excluded_extensions left at its default
Init == excluded_extensions = <<>> /\ BranchCall

Next ==
    \/ CommitsPage
    \/ CommitsFail
    \/ ChangesPage
    \/ ChangesFail
    \/ FileChange
    \/ FileChangeFail

Spec == Init /\ [][Next]_vars

\* analyze_commit_changes is entered directly, for any commit of any branch
\* and any override
CommitCall ==
    /\ top = "analyze_commit_changes"
    /\ result = EmptyDict /\ failed = FALSE /\ requests = <<>>
    /\ srv_commits = <<>>
    /\ all_commits = <<>> /\ significant_commits = <<>> /\ idx = 0
    /\ results = <<>>
    /\ \E commit \in UNION {CommitChoices(i) : i \in 1..MaxCommits},
          prev \in {None} \cup (1..MaxCommits) :
          /\ pc = "get_changes"
          /\ current_commit = commit
          /\ previous_commit_id = prev
          /\ since_id = ResolvePrevious(commit, prev)
    /\ srv_changes \in ChangeLists(MaxFiles) /\ srv_omits = {}
    /\ restarts = 0 /\ start = 0 /\ all_changes = <<>> /\ responses = <<>>
    /\ changes = <<>> /\ file_i = 0 /\ files_changed = 0
    /\ lines_added = 0 /\ lines_removed = 0 /\ data = EmptyDict
    /\ calls = 0 /\ last_call = EmptyDict /\ report = EmptyDict

\* analyze_commit_changes(commit, override), excluded_extensions left at
\* its default
InitCommit == excluded_extensions = <<>> /\ CommitCall

NextCommit ==
    \/ ChangesPage
    \/ ChangesFail
    \/ FileChange
    \/ FileChangeFail

SpecCommit == InitCommit /\ [][NextCommit]_vars

\* the per-record counts analyze_commit_changes can reach within the bounds
RecordCounts ==
    {c \in (0..MaxFiles) \X (0..MaxLines) \X (0..MaxLines) :
        /\ c[2] + c[3] <= MaxLines
        /\ c[2] + c[3] > 0 => c[1] > 0}

\* the elements of the set of ids S in increasing order
RECURSIVE Ascending(_)
Ascending(S) ==
    IF S = {} THEN <<>>
    ELSE LET least == CHOOSE i \in S : \A j \in S : i <= j
         IN  <<least>> \o Ascending(S \ {least})

\* the lists analyze_branch returns: one record per significant commit,
\* oldest first, within the bounds on the server's content
ReportInputs ==
    UNION {{rs \in {[k \in 1..Cardinality(S) |->
                        AnalysisRecord([id |-> Ascending(S)[k]]
                                           @@ CommitExtras(Ascending(S)[k]),
                                       c[Ascending(S)[k]][1], c[Ascending(S)[k]][2],
                                       c[Ascending(S)[k]][3])] :
                     c \in [S -> RecordCounts]} :
               /\ FilesIn(rs) <= MaxFiles
               /\ LinesIn(rs) <= MaxLines} :
           S \in SUBSET (1..MaxCommits)}

\* analyze_branch(Branch, excluded_extensions), which hands the list to
\* every analyze_commit_changes call, with any list of excluded extensions
InitExclude == excluded_extensions \in ExcludedChoices /\ BranchCall

NextExclude ==
    \/ CommitsPage
    \/ CommitsFail
    \/ ChangesPage
    \/ ChangesFail
    \/ FileChange
    \/ FileChangeFail

SpecExclude == InitExclude /\ [][NextExclude]_vars

\* the Reporter called on a list analyze_branch returned
InitReport ==
    /\ top = "Reporter" /\ pc = "report" /\ excluded_extensions = <<>>
    /\ result = EmptyDict /\ failed = FALSE /\ requests = <<>>
    /\ srv_commits = <<>> /\ srv_changes = <<>> /\ srv_omits = {} /\ restarts = 0
    /\ start = 0 /\ all_changes = <<>> /\ responses = <<>>
    /\ all_commits = <<>> /\ significant_commits = <<>> /\ idx = 0
    /\ previous_commit_id = None
    /\ results \in ReportInputs
    /\ current_commit = EmptyDict /\ since_id = None
    /\ changes = <<>> /\ file_i = 0 /\ files_changed = 0
    /\ lines_added = 0 /\ lines_removed = 0 /\ data = EmptyDict
    /\ calls = 0 /\ last_call = EmptyDict /\ report = EmptyDict

NextReport ==
    \/ TextReport
    \/ JsonReport

SpecReport == InitReport /\ [][NextReport]_vars

\* analyze_branch and the Reporter, each called on its own
InitApi == Init \/ InitReport

NextApi ==
    \/ Next
    \/ NextReport

SpecApi == InitApi /\ [][NextApi]_vars

\* get_commits(Branch) and get_commit_changes(current, previous) called
\* directly
InitPage ==
    /\ excluded_extensions = <<>>
    /\ result = EmptyDict /\ failed = FALSE /\ requests = <<>>
    /\ srv_omits \in SUBSET PageKeys
    /\ restarts = 0 /\ start = 0 /\ all_changes = <<>> /\ responses = <<>>
    /\ all_commits = <<>> /\ significant_commits = <<>> /\ idx = 0
    /\ results = <<>>
    /\ changes = <<>> /\ file_i = 0 /\ files_changed = 0
    /\ lines_added = 0 /\ lines_removed = 0 /\ data = EmptyDict
    /\ calls = 0 /\ last_call = EmptyDict /\ report = EmptyDict
    /\ \/ /\ top = "get_commits" /\ pc = "get_commits"
          /\ srv_commits \in Repos /\ srv_changes = <<>>
          /\ current_commit = EmptyDict
          /\ previous_commit_id = None /\ since_id = None
       \/ /\ top = "get_commit_changes" /\ pc = "get_changes"
          /\ srv_commits = <<>> /\ srv_changes \in ChangeLists(MaxFiles)
          /\ \E i \in 1..MaxCommits, prev \in {None} \cup (1..MaxCommits) :
                /\ current_commit = [id |-> i]
                /\ previous_commit_id = prev /\ since_id = prev

NextPage ==
    \/ CommitsPage
    \/ CommitsFail
    \/ ChangesPage
    \/ ChangesFail

SpecPage == InitPage /\ [][NextPage]_vars

(* ------------------------------- claims ------------------------------- *)
\* the number of parents a commit dict lists
ParentCount(c) == IF "parents" \in DOMAIN c THEN Len(c["parents"]) ELSE 0

\* the positions of cs that hold an initial commit or a merge
SignificantAt(cs) == {i \in 1..Len(cs) : ParentCount(cs[i]) = 0 \/ ParentCount(cs[i]) > 1}

\* the k-th smallest element of the set of numbers S
Nth(S, k) == CHOOSE i \in S : Cardinality({j \in S : j <= i}) = k

\* the subsequence of cs at its significant positions
SignificantOf(cs) ==
    [k \in 1..Cardinality(SignificantAt(cs)) |-> cs[Nth(SignificantAt(cs), k)]]

\* the last request issued
LastRequest == requests[Len(requests)]

\* analyze_branch has its commit list: get_commits has returned
CommitsFetched ==
    /\ top = "analyze_branch"
    /\ pc # "get_commits"
    /\ ~(pc = "raised" /\ LastRequest["endpoint"] = "/commits")

\* the first-page requests of the change-list fetches, in order
ChangeFetches ==
    SelectSeq(requests, LAMBDA r : r["endpoint"] = "/changes" /\ r["start"] = 0)

\* the /diff requests, in order
DiffRequests == SelectSeq(requests, LAMBDA r : r["endpoint"] = "/diff")

\* C1: analyze_branch produces one record per significant commit, oldest
\* first (the reverse of the server order of the significant subsequence);
\* the oldest significant commit is fetched with the baseline none when it is
\* initial and its first parent otherwise, and every later one with the id
\* of the significant commit analyzed just before it, not its first parent.
C1_BranchOrderAndBaselines ==
    CommitsFetched =>
        LET newest_first == SignificantOf(all_commits)
            n == Len(newest_first)
            oldest_first == [k \in 1..n |-> newest_first[n + 1 - k]]
            fetches == ChangeFetches
        IN  /\ Len(results) <= Len(oldest_first)
            /\ \A k \in 1..Len(results) :
                  results[k]["analyzed_commit"] = oldest_first[k]["id"]
            /\ Len(fetches) <= Len(oldest_first)
            /\ \A k \in 1..Len(fetches) :
                  /\ fetches[k]["commit"] = oldest_first[k]["id"]
                  /\ fetches[k]["since"] =
                        IF k > 1 THEN oldest_first[k - 1]["id"]
                        ELSE IF ParentCount(oldest_first[1]) = 0 THEN None
                        ELSE oldest_first[1]["parents"][1]["id"]
            /\ pc = "returned" =>
                  /\ result = [value |-> results]
                  /\ Len(results) = Len(oldest_first)
                  /\ Len(fetches) = Len(oldest_first)

\* C1 witness: a branch of three commits, the newest a merge whose first
\* parent is the middle, single-parent commit, has been analyzed: two
\* records, and the merge was fetched since the initial commit
C1_Witness ==
    /\ top = "analyze_branch" /\ pc = "returned"
    /\ Len(all_commits) = 3 /\ Len(result["value"]) = 2
    /\ ParentCount(all_commits[2]) = 1
    /\ ParentCount(all_commits[1]) = 2
    /\ all_commits[1]["parents"][1]["id"] = 2
    /\ \E k \in 1..Len(requests) :
          /\ requests[k]["endpoint"] = "/changes"
          /\ requests[k]["commit"] = 3 /\ requests[k]["since"] = 1

\* C4: every record analyze_commit_changes returns has
\* net_change = lines_added - lines_removed, negative values included.
C4_NetChange ==
    (top = "analyze_commit_changes" /\ pc = "returned") =>
        /\ result["value"]["net_change"]
              = result["value"]["lines_added"] - result["value"]["lines_removed"]
        /\ result["value"]["lines_added"] = lines_added
        /\ result["value"]["lines_removed"] = lines_removed

\* C4 witness: a record with more lines removed than added
C4_Witness ==
    /\ top = "analyze_commit_changes" /\ pc = "returned"
    /\ result["value"]["lines_removed"] > result["value"]["lines_added"]
    /\ result["value"]["net_change"] < 0

\* C5: filter_significant_commits returns exactly the commits whose parent
\* list is empty or has more than one entry, in input order; a commit with
\* one parent is never in the output; is_initial and is_merge are those two
\* tests and never hold together.
C5_FilterSignificant ==
    CommitsFetched =>
        /\ significant_commits = SignificantOf(all_commits)
        /\ \A k \in 1..Len(significant_commits) :
              ParentCount(significant_commits[k]) # 1
        /\ \A i \in 1..Len(all_commits) :
              /\ is_initial_commit(all_commits[i]) = (ParentCount(all_commits[i]) = 0)
              /\ is_merge_commit(all_commits[i]) = (ParentCount(all_commits[i]) > 1)
              /\ ~(is_initial_commit(all_commits[i]) /\ is_merge_commit(all_commits[i]))

\* C5 witness: a list of three commits of which the middle one, with one
\* parent, was filtered out and the other two were kept in order
C5_Witness ==
    /\ CommitsFetched
    /\ Len(all_commits) = 3 /\ ParentCount(all_commits[2]) = 1
    /\ significant_commits = <<all_commits[1], all_commits[3]>>

\* the baseline the claim names for a commit and an override
Baseline(commit, override) ==
    IF override # None THEN override
    ELSE IF ParentCount(commit) > 0 THEN commit["parents"][1]["id"]
    ELSE None

\* C10: analyze_commit_changes resolves the baseline as the override when
\* one is given, else the first parent when the commit has parents, else
\* none, and uses it as `since` of the change-list fetch and of every
\* per-file diff fetch of that commit.
C10_Baseline ==
    top = "analyze_commit_changes" =>
        \A k \in 1..Len(requests) :
            /\ requests[k]["since"] = Baseline(current_commit, previous_commit_id)
            /\ requests[k]["endpoint"] = "/changes" =>
                  requests[k]["commit"] = current_commit["id"]
            /\ requests[k]["endpoint"] = "/diff" =>
                  requests[k]["until"] = current_commit["id"]

\* C10 witness: an override that is not the first parent of a commit with
\* parents, used for the change list and for two per-file diffs
C10_Witness ==
    /\ top = "analyze_commit_changes" /\ pc = "returned"
    /\ previous_commit_id # None
    /\ ParentCount(current_commit) > 0
    /\ current_commit["parents"][1]["id"] # previous_commit_id
    /\ Len(DiffRequests) = 2
    /\ \A k \in 1..Len(requests) : requests[k]["since"] = previous_commit_id

\* the values of the pages rs, one after the other
PagesConcat(rs) ==
    LET f[k \in 0..Len(rs)] ==
            IF k = 0 THEN <<>>
            ELSE f[k - 1] \o (IF "values" \in DOMAIN rs[k] THEN rs[k]["values"]
                              ELSE <<>>)
    IN  f[Len(rs)]

\* C2: get_commits and get_commit_changes request the first page with start
\* 0 and each later page with the nextPageStart the preceding response
\* returned, stop after the first response with isLastPage true, and return
\* the values of all received pages in request order, nothing dropped,
\* duplicated or reordered.
C2_Pagination ==
    top \in {"get_commits", "get_commit_changes"} =>
        /\ Len(responses) <= Len(requests) /\ Len(requests) <= Len(responses) + 1
        /\ requests # <<>> => requests[1]["start"] = 0
        /\ \A k \in 2..Len(requests) :
              "nextPageStart" \in DOMAIN responses[k - 1] =>
                  requests[k]["start"] = responses[k - 1]["nextPageStart"]
        /\ \A k \in 1..Len(responses) :
              ("isLastPage" \in DOMAIN responses[k] /\ responses[k]["isLastPage"]) =>
                  (k = Len(requests) /\ pc = "returned")
        /\ (IF top = "get_commits" THEN all_commits ELSE all_changes)
              = PagesConcat(responses)
        /\ pc = "returned" =>
              /\ result = [value |-> PagesConcat(responses)]
              /\ Len(requests) = Len(responses)

\* C2 witness: get_commits has returned three commits received in three
\* pages, the third requested at the offset the second response gave
C2_Witness ==
    /\ top = "get_commits" /\ pc = "returned"
    /\ Len(responses) = 3 /\ Len(result["value"]) = 3
    /\ result["value"] = srv_commits
    /\ requests[3]["start"] = 2 /\ responses[2]["nextPageStart"] = 2

\* C3: when a request of analyze_branch fails, the failure reaches the
\* caller: nothing is returned, neither a partial commit list nor a record,
\* and no request is issued afterwards, not that one again either.
C3_FailurePropagates ==
    [][/\ failed' => (pc' = "raised" /\ result' = EmptyDict)
       /\ failed => requests' = requests]_vars

\* C3 witness: the diff request for the second file of the second
\* significant commit has failed, after one record and some lines
C3_Witness ==
    /\ top = "analyze_branch" /\ failed /\ pc = "raised"
    /\ Len(results) >= 1
    /\ LastRequest["endpoint"] = "/diff"
    /\ files_changed = 2 /\ lines_added + lines_removed > 0

\* the Reporter's last call
LastCallIs(function, show_cumulative) ==
    /\ calls > 0
    /\ last_call["function"] = function
    /\ last_call["show_cumulative"] = show_cumulative

\* C6: generate_text_report with show_cumulative false never fails on a
\* non-empty list of records as analyze_branch produces them: it renders one
\* block per record, in input order, and the grand-total footer.
C6_TextReportNeverFails ==
    (LastCallIs("generate_text_report", FALSE) /\ results # <<>>) =>
        /\ "value" \in DOMAIN report
        /\ Len(report["value"]) = 3 + 9 * Len(results) + 4
        /\ \A i \in 1..Len(results) :
              /\ report["value"][3 + 9 * (i - 1) + 2]
                    = <<"Author: ", results[i]["author"]>>
              /\ report["value"][3 + 9 * (i - 1) + 7]
                    = <<"Net Change: ", results[i]["net_change"]>>
        /\ report["value"][Len(report["value"])]
              = <<"Total Net Change: ", Sum(results, "net_change")>>

\* the sum of rs[1][key] .. rs[i][key]
Total(rs, i, key) ==
    LET t[k \in 0..i] == IF k = 0 THEN 0 ELSE t[k - 1] + rs[k][key]
    IN  t[i]

\* C7: in the JSON report with show_cumulative true the last commit's
\* cumulative fields equal the totals of the summary.
C7_LastCumulativeIsTotal ==
    (LastCallIs("generate_json_report", TRUE) /\ results # <<>>) =>
        LET commits == report["value"]["commits"]
            last == commits[Len(commits)]
            summary == report["value"]["summary"]
        IN  /\ last["cumulative_files_changed"] = summary["total_files_changed"]
            /\ last["cumulative_lines_added"] = summary["total_lines_added"]
            /\ last["cumulative_lines_removed"] = summary["total_lines_removed"]
            /\ last["cumulative_net_change"] = summary["total_net_change"]

\* C7 witness: a JSON report with running totals over two records, with
\* lines added and more lines removed
C7_Witness ==
    /\ LastCallIs("generate_json_report", TRUE)
    /\ Len(results) = 2
    /\ report["value"]["summary"]["total_files_changed"] = 2
    /\ report["value"]["summary"]["total_net_change"] < 0
    /\ report["value"]["commits"][1]["files_changed"] = 1

CumulativeKeys ==
    {"cumulative_files_changed", "cumulative_lines_added",
     "cumulative_lines_removed", "cumulative_net_change"}

\* C8: generate_json_report with show_cumulative true emits the records in
\* input order, the i-th with the sums of files, added, removed and net over
\* records 1..i; with show_cumulative false the call adds no cumulative
\* field, and the summary is the same.
C8_RunningTotals ==
    [][(calls' = calls + 1 /\ last_call'["function"] = "generate_json_report"
        /\ results # <<>>) =>
          LET out == report'["value"]["commits"]
          IN  /\ Len(out) = Len(results)
              /\ report'["value"]["summary"]
                    = [total_commits |-> Len(results),
                       total_files_changed |-> Total(results, Len(results), "files_changed"),
                       total_lines_added |-> Total(results, Len(results), "lines_added"),
                       total_lines_removed |-> Total(results, Len(results), "lines_removed"),
                       total_net_change |-> Total(results, Len(results), "net_change")]
              /\ \A i \in 1..Len(results) :
                    IF last_call'["show_cumulative"]
                    THEN /\ \A key \in DOMAIN results[i] \ CumulativeKeys :
                               out[i][key] = results[i][key]
                         /\ DOMAIN out[i] = DOMAIN results[i] \cup CumulativeKeys
                         /\ out[i]["cumulative_files_changed"]
                               = Total(results, i, "files_changed")
                         /\ out[i]["cumulative_lines_added"]
                               = Total(results, i, "lines_added")
                         /\ out[i]["cumulative_lines_removed"]
                               = Total(results, i, "lines_removed")
                         /\ out[i]["cumulative_net_change"]
                               = Total(results, i, "net_change")
                    ELSE out[i] = results[i]]_vars

\* C8 witness: the first call was the JSON report with running totals over
\* two records with one file each
C8_Witness ==
    /\ calls = 1 /\ LastCallIs("generate_json_report", TRUE)
    /\ Len(results) = 2
    /\ Len(report["value"]["commits"]) = 2
    /\ report["value"]["commits"][1]["cumulative_files_changed"] = 1
    /\ report["value"]["commits"][2]["cumulative_files_changed"] = 2
    /\ report["value"]["commits"][2]["files_changed"] = 1

\* C9: an empty result set is a value, never a raised error: analyze_branch
\* returns the empty list, without a change-list or diff request, when the
\* branch has no commits or no significant commit; the text report of an
\* empty list is 'No results to report.' and the JSON report of an empty
\* list is the object with the single key "error".
C9_EmptyIsAValue ==
    /\ (CommitsFetched /\ SignificantAt(all_commits) = {}) =>
          /\ pc = "returned" /\ result = [value |-> <<>>]
          /\ \A k \in 1..Len(requests) : requests[k]["endpoint"] = "/commits"
    /\ (LastCallIs("generate_text_report", TRUE) /\ results = <<>>) =>
          report = [value |-> <<<<"No results to report.">>>>]
    /\ (LastCallIs("generate_text_report", FALSE) /\ results = <<>>) =>
          report = [value |-> <<<<"No results to report.">>>>]
    /\ \A sc \in BOOLEAN :
          (LastCallIs("generate_json_report", sc) /\ results = <<>>) =>
              /\ DOMAIN report = {"value"}
              /\ DOMAIN report["value"] = {"error"}
              /\ report["value"]["error"] = "No results to report."

\* C9 witness: analyze_branch has returned the empty list for a branch whose
\* two listed commits both have one parent
C9_Witness ==
    /\ top = "analyze_branch" /\ pc = "returned"
    /\ Len(all_commits) = 2 /\ SignificantAt(all_commits) = {}
    /\ result = [value |-> <<>>]

\* the fields analyze_commit_changes gives a record
RecordKeys ==
    {"analyzed_commit", "author", "date", "files_changed", "lines_added",
     "lines_removed", "net_change"}

\* C11: a Reporter call only appends running-total fields: after
\* generate_json_report (with or without show_cumulative) and after
\* generate_text_report the caller's list has the same number of records in
\* the same order, and every record still has its original analyzed_commit,
\* author, date, files_changed, lines_added, lines_removed and net_change.
C11_OriginalFieldsKept ==
    [][calls' = calls + 1 =>
          /\ Len(results') = Len(results)
          /\ \A i \in 1..Len(results) :
                /\ RecordKeys \subseteq DOMAIN results'[i]
                /\ \A k \in RecordKeys : results'[i][k] = results[i][k]
                /\ DOMAIN results'[i] \ DOMAIN results[i] \subseteq CumulativeKeys]_vars

\* C11 witness: generate_json_report with show_cumulative true has written
\* running totals into the second of two records, and they differ from the
\* record's own counts
C11_Witness ==
    /\ LastCallIs("generate_json_report", TRUE)
    /\ Len(results) = 2
    /\ "cumulative_lines_added" \in DOMAIN results[2]
    /\ results[2]["cumulative_lines_added"] # results[2]["lines_added"]
    /\ results[2]["cumulative_files_changed"] # results[2]["files_changed"]

\* the authors of the records rs
AuthorsOf(rs) == {rs[i]["author"] : i \in 1..Len(rs)}

\* the first record of rs whose author is a
FirstRecordOf(rs, a) ==
    rs[CHOOSE i \in 1..Len(rs) :
          /\ rs[i]["author"] = a
          /\ \A j \in 1..(i - 1) : rs[j]["author"] # a]

\* C12: generate_text_report with show_cumulative true renders the
\* breakdown by author: for a non-empty list the report has one entry per
\* distinct author, and the entry gives the author's files, added, removed
\* and net totals, which are the values of the author's first record.
C12_CumulativeByAuthor ==
    (LastCallIs("generate_text_report", TRUE) /\ results # <<>>) =>
        /\ "value" \in DOMAIN report
        /\ Len(report["value"]) = Cardinality(AuthorsOf(results))
        /\ \A a \in AuthorsOf(results) :
              \E i \in 1..Len(report["value"]) :
                 LET entry == report["value"][i]
                     first == FirstRecordOf(results, a)
                 IN  /\ entry[1] = a
                     /\ Len(entry) = 5
                     /\ entry[2] = first["files_changed"]
                     /\ entry[3] = first["lines_added"]
                     /\ entry[4] = first["lines_removed"]
                     /\ entry[5] = first["net_change"]

\* the /diff requests issued for the commit being analyzed, in order
CurrentDiffs ==
    SelectSeq(requests, LAMBDA r : /\ r["endpoint"] = "/diff"
                                   /\ r["until"] = current_commit["id"])

\* C13: excluded_extensions has no influence on the analysis: whatever list
\* is passed, the requests and the record are those the change list alone
\* determines. files_changed counts every entry of the change list, and the
\* per-file diff is requested for each entry the code fetches without an
\* exclusion list (those with a type), in order, whether or not
\* should_include_file lets its path through.
C13_ExclusionHasNoEffect ==
    (pc \in {"get_file_change", "returned"} /\ "id" \in DOMAIN current_commit) =>
        LET done == IF pc = "get_file_change" THEN file_i - 1 ELSE Len(changes)
            typed == {i \in 1..done : "type" \in DOMAIN changes[i]}
            diffs == CurrentDiffs
        IN  /\ files_changed = IF pc = "get_file_change" THEN file_i ELSE Len(changes)
            /\ Len(diffs) = Cardinality(typed)
            /\ \A k \in 1..Len(diffs) :
                  diffs[k]["path"] = changes[Nth(typed, k)]["path"]["toString"]
            /\ pc = "returned" =>
                  /\ results[Len(results)]["files_changed"] = Len(changes)
                  /\ results[Len(results)]["lines_added"] = lines_added
                  /\ results[Len(results)]["lines_removed"] = lines_removed

\* C13 witness: analyze_branch was called with .png excluded and has
\* returned one record of one changed file, b.PNG, which
\* should_include_file rejects: its diff was fetched and its lines counted
C13_Witness ==
    /\ top = "analyze_branch" /\ pc = "returned"
    /\ excluded_extensions = <<".png">>
    /\ Len(results) = 1 /\ Len(changes) = 1
    /\ ~should_include_file(changes[1]["path"]["toString"], excluded_extensions)
    /\ Len(DiffRequests) = 1 /\ DiffRequests[1]["path"] = "b.PNG"
    /\ results[1]["files_changed"] = 1
    /\ results[1]["lines_added"] > 0

\* the line entries of the diff body d in segments of type kind: one tuple
\* <<diff, hunk, segment, line>> for each
LineEntries(d, kind) ==
    LET diffs == IF "diffs" \in DOMAIN d THEN d["diffs"] ELSE <<>>
        hunks(i) == IF "hunks" \in DOMAIN diffs[i] THEN diffs[i]["hunks"] ELSE <<>>
        segments(i, j) ==
            IF "segments" \in DOMAIN hunks(i)[j] THEN hunks(i)[j]["segments"] ELSE <<>>
        counted(sg) ==
            IF "type" \in DOMAIN sg /\ sg["type"] = kind /\ "lines" \in DOMAIN sg
            THEN Len(sg["lines"]) ELSE 0
    IN  UNION {UNION {UNION {{<<i, j, k, l>> : l \in 1..counted(segments(i, j)[k])} :
                                k \in 1..Len(segments(i, j))} :
                         j \in 1..Len(hunks(i))} :
                  i \in 1..Len(diffs)}

\* the entries among the first n of the change list chs that have a type
TypedUpTo(chs, n) == {i \in 1..n : "type" \in DOMAIN chs[i]}

\* the entries of the change list the for loop has gone through
EntriesDone == IF pc = "get_file_change" THEN file_i - 1 ELSE Len(changes)

\* C14 as stated: analyze_commit_changes fetches the per-file diff exactly
\* once for each entry of the change list, in change-list order, so that a
\* returned call has issued as many diff requests as the list has entries,
\* the k-th for the k-th entry's path.
C14_DiffOncePerEntry ==
    (top = "analyze_commit_changes" /\ pc = "returned") =>
        /\ Len(DiffRequests) = Len(changes)
        /\ \A k \in 1..Len(DiffRequests) :
              DiffRequests[k]["path"] = changes[k]["path"]["toString"]

\* C14 amended: analyze_commit_changes fetches the per-file diff exactly
\* once for each entry of the change list that has a "type" key, in
\* change-list order, and none for an entry without one; each fetched diff
\* adds to lines_added the number of line entries in its segments of type
\* ADDED and to lines_removed that of its segments of type REMOVED, over all
\* its diffs, hunks and segments, both counts starting at 0, and the record
\* returns the two sums; CONTEXT segments add to neither.
C14_DiffOncePerTypedEntry ==
    /\ [](top = "analyze_commit_changes" /\ pc \in {"get_file_change", "returned"} =>
            /\ Len(DiffRequests) = Cardinality(TypedUpTo(changes, EntriesDone))
            /\ \A k \in 1..Len(DiffRequests) :
                  DiffRequests[k]["path"]
                     = changes[Nth(TypedUpTo(changes, EntriesDone), k)]["path"]["toString"]
            /\ DiffRequests = <<>> => lines_added = 0 /\ lines_removed = 0
            /\ pc = "returned" =>
                  /\ result["value"]["lines_added"] = lines_added
                  /\ result["value"]["lines_removed"] = lines_removed)
    /\ [][(top = "analyze_commit_changes" /\ pc = "get_file_change" /\ ~failed') =>
            /\ requests' = Append(requests,
                    [endpoint |-> "/diff", path |-> changes[file_i]["path"]["toString"],
                     since |-> since_id, until |-> current_commit["id"]])
            /\ lines_added' = lines_added + Cardinality(LineEntries(data', "ADDED"))
            /\ lines_removed' = lines_removed
                                   + Cardinality(LineEntries(data', "REMOVED"))]_vars

\* C14 witness: a change list of an entry without a type followed by one
\* with a type has been analyzed: one diff was fetched, for the second
\* entry, and of its ADDED and CONTEXT segments only the first was counted
C14_Witness ==
    /\ top = "analyze_commit_changes" /\ pc = "returned"
    /\ Len(changes) = 2 /\ "type" \notin DOMAIN changes[1]
    /\ Len(DiffRequests) = 1
    /\ LineEntries(data, "CONTEXT") # {}
    /\ result["value"]["files_changed"] = 2
    /\ result["value"]["lines_added"] = 1
    /\ result["value"]["lines_removed"] = 0

\* C15: the paging loops of get_commits and get_commit_changes make
\* progress through the server's finite list for every response shape the
\* code accepts, a page that is not the last and omits nextPageStart
\* included: a loop never requests the same start offset twice (which is
\* what lets it reach the server's last page and terminate).
C15_NoOffsetTwice ==
    top \in {"get_commits", "get_commit_changes"} =>
        \A i \in 1..Len(requests) : \A j \in 1..Len(requests) :
            i # j => requests[i]["start"] # requests[j]["start"]


====
